---------------------------- MODULE Spec2Model ----------------------------
(***************************************************************************)
(* Model of monitoring/drift_detection.py: the DriftDetector's three       *)
(* detection operations, publish_metrics, run_monitoring and the process   *)
(* entry point.                                                            *)
(*                                                                         *)
(* Numbers.  A Python/numpy float is modelled by an exact fraction         *)
(* [num, den] in lowest terms with den >= 0; den = 0 encodes the IEEE      *)
(* specials: 1/0 is +inf, -1/0 is -inf and 0/0 is NaN.  Within the bounds  *)
(* below every comparison the code makes on doubles has the same outcome   *)
(* on the exact fractions.                                                 *)
(*                                                                         *)
(* Python values.  A value stored in a result dict carries its run-time    *)
(* type, because isinstance(v, (int, float)) and json.dumps depend on it:  *)
(*   "bool"    Python bool (a subclass of int)                             *)
(*   "bool_"   numpy.bool_ (the result of comparing numpy scalars)         *)
(*   "float"   Python float                                                *)
(*   "float64" numpy.float64 (a subclass of Python float)                  *)
(*   "list"    Python list                                                 *)
(* A dict is the sequence of its [k, v] items in insertion order.          *)
(***************************************************************************)
EXTENDS Integers, Sequences, FiniteSets, TLC

VARIABLES
    threshold,      \* DriftDetector.threshold
    op,             \* the detection operation last called on the detector
    args,           \* its arguments
    ret,            \* its outcome: a returned dict or a raised exception
    pc,             \* position of the process in __main__ / run_monitoring
    model_id,       \* MODEL_ID
    data_drift,     \* run_monitoring's local data_drift
    concept_drift,  \* run_monitoring's local concept_drift
    pred_drift,     \* run_monitoring's local pred_drift
    all_metrics,    \* run_monitoring's local all_metrics
    idx,            \* publish_metrics: position of the loop in metrics.items()
    attempts,       \* telemetry backend: put_metric_data calls received
    emitted,        \* telemetry backend: metrics accepted, in order
    error,          \* the exception propagating out of run_monitoring
    result,         \* __main__'s local result
    stdout,         \* what the process printed
    exit_code       \* the process exit status

vars == <<threshold, op, args, ret, pc, model_id, data_drift, concept_drift,
          pred_drift, all_metrics, idx, attempts, emitted, error, result,
          stdout, exit_code>>

---------------------------------------------------------------------------
(* Bounds of the model. *)

MaxRows == 2
MaxWidth == 2
MaxLen == 2

DataValues == {0, 1}
Labels == {0, 1}
PredValues == {-1, 0, 1}
ModelIds == {"demo-model", "churn-v2"}

NoError == "none"

---------------------------------------------------------------------------
(* Floats as exact fractions. *)

AbsInt(n) == IF n < 0 THEN -n ELSE n

SignInt(n) == IF n < 0 THEN -1 ELSE IF n > 0 THEN 1 ELSE 0

RECURSIVE GCD(_, _)
GCD(a, b) == IF b = 0 THEN a ELSE GCD(b, a % b)

Frac(n, d) ==
    IF d = 0 THEN [num |-> SignInt(n), den |-> 0]
    ELSE LET g == GCD(AbsInt(n), AbsInt(d))
         IN  [num |-> SignInt(d) * SignInt(n) * (AbsInt(n) \div g),
              den |-> AbsInt(d) \div g]

IsNaN(x) == x.den = 0 /\ x.num = 0
IsInf(x) == x.den = 0 /\ x.num # 0
IsFinite(x) == x.den > 0

Zero == Frac(0, 1)
One == Frac(1, 1)
NaN == Frac(0, 0)

FSub(a, b) ==
    IF IsNaN(a) \/ IsNaN(b) THEN NaN
    ELSE IF IsInf(a) THEN (IF IsInf(b) /\ b.num = a.num THEN NaN ELSE a)
    ELSE IF IsInf(b) THEN Frac(-b.num, 0)
    ELSE Frac(a.num * b.den - b.num * a.den, a.den * b.den)

FDiv(a, b) ==
    IF IsNaN(a) \/ IsNaN(b) THEN NaN
    ELSE IF IsInf(a) THEN (IF IsInf(b) THEN NaN
                           ELSE Frac(a.num * (IF b.num < 0 THEN -1 ELSE 1), 0))
    ELSE IF IsInf(b) THEN Zero
    ELSE IF b.num = 0 THEN Frac(a.num, 0)
    ELSE Frac(a.num * b.den, a.den * b.num)

FAbs(a) == [num |-> AbsInt(a.num), den |-> a.den]

FScale(a, k) == Frac(a.num * k, a.den)

\* a < b on doubles: false when either is NaN.
FLt(a, b) ==
    IF IsNaN(a) \/ IsNaN(b) THEN FALSE
    ELSE IF IsInf(a) THEN a.num < 0 /\ ~(IsInf(b) /\ b.num < 0)
    ELSE IF IsInf(b) THEN b.num > 0
    ELSE a.num * b.den < b.num * a.den

FGt(a, b) == FLt(b, a)

\* Python's max(a, b): b only when it is greater than a.
PyMax(a, b) == IF FGt(b, a) THEN b ELSE a

RECURSIVE SumSeq(_)
SumSeq(s) == IF s = <<>> THEN 0 ELSE Head(s) + SumSeq(Tail(s))

\* np.mean: the mean of an empty array is nan (with a RuntimeWarning).
Mean(s) == Frac(SumSeq(s), Len(s))

---------------------------------------------------------------------------
(* Python values and dicts. *)

PyBool(b) == [type |-> "bool", val |-> b]
NpBool(b) == [type |-> "bool_", val |-> b]
PyFloat(x) == [type |-> "float", val |-> x]
NpFloat(x) == [type |-> "float64", val |-> x]
PyList(s) == [type |-> "list", val |-> s]

Item(key, value) == [k |-> key, v |-> value]

Keys(d) == [i \in 1..Len(d) |-> d[i].k]

HasKey(d, key) == \E i \in 1..Len(d) : d[i].k = key

Get(d, key) == d[CHOOSE i \in 1..Len(d) : d[i].k = key].v

Returned(d) == [error |-> NoError, value |-> d]
Raised(e) == [error |-> e, value |-> <<>>]

---------------------------------------------------------------------------
(* scipy.stats.ks_2samp, two-sided, method 'auto': exact for samples of at  *)
(* most 10000 elements.                                                     *)

Range(s) == {s[i] : i \in 1..Len(s)}

MaxOf(S) == CHOOSE m \in S : \A x \in S : x <= m

\* np.searchsorted(sorted sample, x, side='left'): how many elements are < x.
KsCountLeft(sample, x) == Cardinality({i \in 1..Len(sample) : sample[i] < x})

\* np.searchsorted(sorted sample, x, side='right'): how many elements are <= x.
KsCount(sample, x) == Cardinality({i \in 1..Len(sample) : sample[i] <= x})

\* KsH with the second sample's distribution function taken with side='left'.
KsHMixedSides(data1, data2) ==
    LET n1 == Len(data1)
        n2 == Len(data2)
        g  == GCD(n1, n2)
        diffs == {AbsInt(KsCount(data1, x) * n2 - KsCountLeft(data2, x) * n1) :
                     x \in Range(data1) \cup Range(data2)}
    IN  MaxOf(diffs) \div g

\* The statistic d as the integer h = d * lcm(n1, n2): the largest absolute
\* difference of the two empirical distribution functions over the pooled data.
KsH(data1, data2) ==
    LET n1 == Len(data1)
        n2 == Len(data2)
        g  == GCD(n1, n2)
        diffs == {AbsInt(KsCount(data1, x) * n2 - KsCount(data2, x) * n1) :
                     x \in Range(data1) \cup Range(data2)}
    IN  MaxOf(diffs) \div g

KsLcm(data1, data2) ==
    (Len(data1) \div GCD(Len(data1), Len(data2))) * Len(data2)

KsStatistic(data1, data2) == Frac(KsH(data1, data2), KsLcm(data1, data2))

\* The lattice paths from (0,0) to (i,j), one step per pooled element, that
\* stay strictly inside |x/n1 - y/n2| < bound / (n1*n2) at every point.
RECURSIVE InsidePaths(_, _, _, _, _)
InsidePaths(i, j, n1, n2, bound) ==
    IF AbsInt(i * n2 - j * n1) >= bound THEN 0
    ELSE IF i = 0 /\ j = 0 THEN 1
    ELSE (IF i > 0 THEN InsidePaths(i - 1, j, n1, n2, bound) ELSE 0)
       + (IF j > 0 THEN InsidePaths(i, j - 1, n1, n2, bound) ELSE 0)

\* The exact p-value Pr(D >= d); 1.0 when h = 0.
KsPValue(data1, data2) ==
    LET n1 == Len(data1)
        n2 == Len(data2)
        h  == KsH(data1, data2)
        total  == InsidePaths(n1, n2, n1, n2, n1 * n2 + 1)
        inside == InsidePaths(n1, n2, n1, n2, h * GCD(n1, n2))
    IN  IF h = 0 THEN One ELSE Frac(total - inside, total)

---------------------------------------------------------------------------
(* class DriftDetector *)

Width(data) == Len(data[1])

\* data[:, i]
Column(data, i) == [r \in 1..Len(data) |-> data[r][i]]

\* p_value <= self.threshold
IsAffectedLe(p_value, theta) == ~FLt(theta, p_value)

\* p_value < self.threshold
IsAffected(p_value, theta) == FLt(p_value, theta)

\* The state of detect_data_drift's locals before the loop.
DataDriftStart ==
    [drift_detected |-> FALSE, affected_features |-> <<>>,
     max_drift_score |-> Zero, p_bound |-> FALSE, p_value |-> Zero]

\* One iteration of the loop over enumerate(features).
DataDriftStep(theta, st, feature, statistic, p_value) ==
    IF IsAffected(p_value, theta)
    THEN [drift_detected |-> TRUE,
          affected_features |-> Append(st.affected_features, feature),
          max_drift_score |-> PyMax(st.max_drift_score, statistic),
          p_bound |-> TRUE, p_value |-> p_value]
    ELSE [st EXCEPT !.p_bound = TRUE, !.p_value = p_value]

\* The returned dict; p_value is unbound when the loop body never ran.
DataDriftReturn(st) ==
    IF ~st.p_bound THEN Raised("UnboundLocalError")
    ELSE Returned(<<Item("detected", PyBool(st.drift_detected)),
                    Item("score", PyFloat(FScale(st.max_drift_score, 100))),
                    Item("affected_features", PyList(st.affected_features)),
                    Item("p_value", NpFloat(st.p_value))>>)

RECURSIVE DataDriftLoop(_, _, _, _, _, _)
DataDriftLoop(theta, current_data, baseline_data, features, i, st) ==
    IF i > Len(features) THEN DataDriftReturn(st)
    ELSE IF i > Width(baseline_data) \/ i > Width(current_data)
         THEN Raised("IndexError")
    ELSE LET b == Column(baseline_data, i)
             c == Column(current_data, i)
         IN  DataDriftLoop(theta, current_data, baseline_data, features, i + 1,
                 DataDriftStep(theta, st, features[i],
                               KsStatistic(b, c), KsPValue(b, c)))

detect_data_drift(theta, current_data, baseline_data, features) ==
    DataDriftLoop(theta, current_data, baseline_data, features, 1, DataDriftStart)

BaselineAccuracy == Frac(19, 20)

\* predictions == actuals, elementwise, as 0/1.
Matches(predictions, actuals) ==
    [i \in 1..Len(predictions) |-> IF predictions[i] = actuals[i] THEN 1 ELSE 0]

detect_concept_drift(theta, predictions, actuals) ==
    LET accuracy == Mean(Matches(predictions, actuals))
        drift_score == FAbs(FSub(BaselineAccuracy, accuracy))
    IN  Returned(<<Item("detected", NpBool(FGt(drift_score, theta))),
                   Item("score", PyFloat(FScale(drift_score, 100))),
                   Item("current_accuracy", PyFloat(accuracy)),
                   Item("baseline_accuracy", PyFloat(BaselineAccuracy))>>)

detect_prediction_drift(theta, current_predictions, baseline_predictions) ==
    LET current_mean == Mean(current_predictions)
        baseline_mean == Mean(baseline_predictions)
        drift_score == FAbs(FDiv(FSub(current_mean, baseline_mean), baseline_mean))
    IN  Returned(<<Item("detected", NpBool(FGt(drift_score, theta))),
                   Item("score", PyFloat(FScale(drift_score, 100))),
                   Item("current_mean", PyFloat(current_mean)),
                   Item("baseline_mean", PyFloat(baseline_mean))>>)

---------------------------------------------------------------------------
(* publish_metrics and the dict run_monitoring hands it. *)

\* isinstance(value, (int, float)): bool is a subclass of int and
\* numpy.float64 of float; numpy.bool_ and list are neither.
IsNumber(value) == value.type \in {"bool", "int", "float", "float64"}

\* float(value)
ToFloat(value) ==
    IF value.type = "bool" THEN (IF value.val THEN One ELSE Zero) ELSE value.val

\* d[key] = value: a key already present keeps its position.
DictSet(d, key, value) ==
    IF HasKey(d, key)
    THEN [i \in 1..Len(d) |-> IF d[i].k = key THEN Item(key, value) ELSE d[i]]
    ELSE Append(d, Item(key, value))

\* {**a, **b}
RECURSIVE DictMerge(_, _)
DictMerge(a, b) ==
    IF b = <<>> THEN a ELSE DictMerge(DictSet(a, Head(b).k, Head(b).v), Tail(b))

\* {f'{prefix}{k}': v for k, v in d.items() if isinstance(v, (int, float))}
RECURSIVE NumericItemsFrom(_, _, _)
NumericItemsFrom(prefix, d, acc) ==
    IF d = <<>> THEN acc
    ELSE NumericItemsFrom(prefix, Tail(d),
             IF IsNumber(Head(d).v)
             THEN DictSet(acc, prefix \o Head(d).k, Head(d).v)
             ELSE acc)

NumericItems(prefix, d) == NumericItemsFrom(prefix, d, <<>>)

AllMetrics(data, concept, pred) ==
    DictMerge(DictMerge(NumericItems("data_drift_", data),
                        NumericItems("concept_drift_", concept)),
              NumericItems("prediction_drift_", pred))

\* The MetricData entry of one put_metric_data call (its Timestamp, the wall
\* clock, is left out: nothing reads it).
Metric(id, metric_name, value) ==
    [Namespace |-> "MLOps/Monitoring",
     MetricName |-> id \o "/" \o metric_name,
     Value |-> ToFloat(value),
     Unit |-> "Percent"]

\* run_monitoring's return value.
Report(data, concept, pred) ==
    <<Item("data_drift", data), Item("concept_drift", concept),
      Item("prediction_drift", pred)>>

---------------------------------------------------------------------------
(* json.dumps *)

\* The default encoder takes dict, list, str, int, float (and their
\* subclasses), bool and None; for anything else it raises TypeError.
JsonSerializable(value) == value.type \in {"bool", "int", "float", "float64", "list"}

DictSerializable(d) == \A i \in 1..Len(d) : JsonSerializable(d[i].v)

ReportSerializable(report) == \A i \in 1..Len(report) : DictSerializable(report[i].v)

JsonValue(value) ==
    IF value.type = "bool" THEN [json |-> "boolean", val |-> value.val]
    ELSE IF value.type = "list" THEN [json |-> "array", val |-> value.val]
    ELSE [json |-> "number", val |-> value.val]

JsonObject(d) == [i \in 1..Len(d) |-> Item(d[i].k, JsonValue(d[i].v))]

JsonDumps(report) == [i \in 1..Len(report) |-> Item(report[i].k, JsonObject(report[i].v))]

---------------------------------------------------------------------------
(* Inputs. *)

\* A rows x width array.  ks_2samp sorts both samples, so each column is
\* listed in nondecreasing order.
Arrays(rows, width) ==
    {m \in [1..rows -> [1..width -> DataValues]] :
        \A r \in 1..(rows - 1) : \A c \in 1..width : m[r][c] <= m[r + 1][c]}

Datasets == UNION {Arrays(rows, width) : rows \in 1..MaxRows, width \in 1..MaxWidth}

FeatureNames == <<"feature_1", "feature_2", "feature_3", "feature_4", "feature_5">>

FeatureLists == {SubSeq(FeatureNames, 1, n) : n \in 0..MaxWidth}

LabelSeqs(n) == [1..n -> Labels]

PredictionSeqs == UNION {[1..n -> PredValues] : n \in 0..MaxLen}

Thresholds == {Frac(1, 10), Frac(1, 2), One}

\* DriftDetector(threshold=0.10)
RunThreshold == Frac(1, 10)

NotExited == 0 - 1

---------------------------------------------------------------------------
(* The detector called directly.  A detection operation reads only its     *)
(* arguments and self.threshold and writes nothing (baseline_stats is      *)
(* never touched), so a behaviour is one call on a fresh detector.         *)

InitDetector ==
    /\ threshold \in Thresholds
    /\ op = "none"
    /\ args = <<>>
    /\ ret = Returned(<<>>)
    /\ pc = "api"
    /\ model_id = "demo-model"
    /\ data_drift = <<>>
    /\ concept_drift = <<>>
    /\ pred_drift = <<>>
    /\ all_metrics = <<>>
    /\ idx = 1
    /\ attempts = 0
    /\ emitted = <<>>
    /\ error = NoError
    /\ result = <<>>
    /\ stdout = <<>>
    /\ exit_code = NotExited

RunVars == <<model_id, data_drift, concept_drift, pred_drift, all_metrics,
             idx, attempts, emitted, error, result, stdout, exit_code>>

CallDataDrift ==
    /\ pc = "api"
    /\ \E current_data \in Datasets, baseline_data \in Datasets,
          features \in FeatureLists :
          /\ op' = "detect_data_drift"
          /\ pc' = "called"
          /\ args' = [current_data |-> current_data,
                      baseline_data |-> baseline_data, features |-> features]
          /\ ret' = detect_data_drift(threshold, current_data, baseline_data, features)
    /\ UNCHANGED <<threshold, RunVars>>

CallConceptDrift ==
    /\ pc = "api"
    /\ \E n \in 0..MaxLen : \E predictions \in LabelSeqs(n), actuals \in LabelSeqs(n) :
          /\ op' = "detect_concept_drift"
          /\ pc' = "called"
          /\ args' = [predictions |-> predictions, actuals |-> actuals]
          /\ ret' = detect_concept_drift(threshold, predictions, actuals)
    /\ UNCHANGED <<threshold, RunVars>>

CallPredictionDrift ==
    /\ pc = "api"
    /\ \E current_predictions \in PredictionSeqs,
          baseline_predictions \in PredictionSeqs :
          /\ op' = "detect_prediction_drift"
          /\ pc' = "called"
          /\ args' = [current_predictions |-> current_predictions,
                      baseline_predictions |-> baseline_predictions]
          /\ ret' = detect_prediction_drift(threshold, current_predictions,
                                            baseline_predictions)
    /\ UNCHANGED <<threshold, RunVars>>

NextDetector == CallDataDrift \/ CallConceptDrift \/ CallPredictionDrift

SpecDetector == InitDetector /\ [][NextDetector]_vars

---------------------------------------------------------------------------
(* The process: __main__ calls run_monitoring and prints its result.  The   *)
(* arrays run_monitoring draws stand for the data of the monitored model.   *)

Init ==
    /\ threshold = RunThreshold
    /\ op = "none"
    /\ args = <<>>
    /\ ret = Returned(<<>>)
    /\ pc = "detect_data"
    /\ model_id \in ModelIds
    /\ data_drift = <<>>
    /\ concept_drift = <<>>
    /\ pred_drift = <<>>
    /\ all_metrics = <<>>
    /\ idx = 1
    /\ attempts = 0
    /\ emitted = <<>>
    /\ error = NoError
    /\ result = <<>>
    /\ stdout = <<>>
    /\ exit_code = NotExited

CallVars == <<threshold, op, args, ret, model_id>>

\* The exception is recorded and run_monitoring carries on to publishing.
PropagateSwallow(e) ==
    /\ error' = e
    /\ pc' = "collect"

\* An exception leaves run_monitoring: nothing in it catches one.
Propagate(e) ==
    /\ error' = e
    /\ pc' = "raised"

\* data_drift = detector.detect_data_drift(current_data, baseline_data, features)
DetectData ==
    /\ pc = "detect_data"
    /\ \E current_data \in Datasets, baseline_data \in Datasets,
          features \in FeatureLists :
          LET r == detect_data_drift(threshold, current_data, baseline_data, features)
          IN  IF r.error = NoError
              THEN /\ data_drift' = r.value
                   /\ pc' = "detect_concept"
                   /\ UNCHANGED error
              ELSE /\ Propagate(r.error)
                   /\ UNCHANGED data_drift
    /\ UNCHANGED <<CallVars, concept_drift, pred_drift, all_metrics, idx,
                   attempts, emitted, result, stdout, exit_code>>

\* concept_drift = detector.detect_concept_drift(...)
DetectConcept ==
    /\ pc = "detect_concept"
    /\ \E n \in 0..MaxLen : \E predictions \in LabelSeqs(n), actuals \in LabelSeqs(n) :
          LET r == detect_concept_drift(threshold, predictions, actuals)
          IN  IF r.error = NoError
              THEN /\ concept_drift' = r.value
                   /\ pc' = "detect_prediction"
                   /\ UNCHANGED error
              ELSE /\ Propagate(r.error)
                   /\ UNCHANGED concept_drift
    /\ UNCHANGED <<CallVars, data_drift, pred_drift, all_metrics, idx,
                   attempts, emitted, result, stdout, exit_code>>

\* pred_drift = detector.detect_prediction_drift(...)
DetectPrediction ==
    /\ pc = "detect_prediction"
    /\ \E current_predictions \in PredictionSeqs,
          baseline_predictions \in PredictionSeqs :
          LET r == detect_prediction_drift(threshold, current_predictions,
                                           baseline_predictions)
          IN  IF r.error = NoError
              THEN /\ pred_drift' = r.value
                   /\ pc' = "collect"
                   /\ UNCHANGED error
              ELSE /\ Propagate(r.error)
                   /\ UNCHANGED pred_drift
    /\ UNCHANGED <<CallVars, data_drift, concept_drift, all_metrics, idx,
                   attempts, emitted, result, stdout, exit_code>>

\* all_metrics = {...}; detector.publish_metrics(all_metrics, model_id) is entered.
CollectMetrics ==
    /\ pc = "collect"
    /\ all_metrics' = AllMetrics(data_drift, concept_drift, pred_drift)
    /\ idx' = 1
    /\ pc' = "publish"
    /\ UNCHANGED <<CallVars, data_drift, concept_drift, pred_drift, attempts,
                   emitted, error, result, stdout, exit_code>>

\* One iteration of publish_metrics' loop whose put_metric_data call, if the
\* value is a number, the backend accepts.
PublishNext ==
    /\ pc = "publish"
    /\ idx <= Len(all_metrics)
    /\ IF IsNumber(all_metrics[idx].v)
       THEN /\ attempts' = attempts + 1
            /\ emitted' = Append(emitted,
                   Metric(model_id, all_metrics[idx].k, all_metrics[idx].v))
       ELSE UNCHANGED <<attempts, emitted>>
    /\ idx' = idx + 1
    /\ UNCHANGED <<CallVars, pc, data_drift, concept_drift, pred_drift,
                   all_metrics, error, result, stdout, exit_code>>

\* The failed call is dropped and the loop goes on to the next metric.
PublishFailureSkip ==
    /\ idx' = idx + 1
    /\ UNCHANGED <<emitted, error, pc>>

\* What publish_metrics does when put_metric_data raises: nothing catches it.
PublishFailure ==
    /\ Propagate("ClientError")
    /\ UNCHANGED <<idx, emitted>>

\* One iteration whose put_metric_data call the backend fails.
PublishRejected ==
    /\ pc = "publish"
    /\ idx <= Len(all_metrics)
    /\ IsNumber(all_metrics[idx].v)
    /\ attempts' = attempts + 1
    /\ PublishFailure
    /\ UNCHANGED <<CallVars, data_drift, concept_drift, pred_drift,
                   all_metrics, result, stdout, exit_code>>

\* The loop ends; run_monitoring logs and returns the three results.
ReturnReport ==
    /\ pc = "publish"
    /\ idx > Len(all_metrics)
    /\ result' = Report(data_drift, concept_drift, pred_drift)
    /\ pc' = "print"
    /\ UNCHANGED <<CallVars, data_drift, concept_drift, pred_drift,
                   all_metrics, idx, attempts, emitted, error, stdout, exit_code>>

\* print(json.dumps(result, indent=2))
PrintResult ==
    /\ pc = "print"
    /\ IF ReportSerializable(result)
       THEN /\ stdout' = JsonDumps(result)
            /\ exit_code' = 0
            /\ UNCHANGED error
       ELSE /\ error' = "TypeError"
            /\ exit_code' = 1
            /\ UNCHANGED stdout
    /\ pc' = "exit"
    /\ UNCHANGED <<CallVars, data_drift, concept_drift, pred_drift,
                   all_metrics, idx, attempts, emitted, result>>

\* An exception that left run_monitoring ends the process with status 1.
Crash ==
    /\ pc = "raised"
    /\ exit_code' = 1
    /\ pc' = "exit"
    /\ UNCHANGED <<CallVars, data_drift, concept_drift, pred_drift,
                   all_metrics, idx, attempts, emitted, error, result, stdout>>

Next ==
    \/ DetectData
    \/ DetectConcept
    \/ DetectPrediction
    \/ CollectMetrics
    \/ PublishNext
    \/ PublishRejected
    \/ ReturnReport
    \/ PrintResult
    \/ Crash

Spec == Init /\ [][Next]_vars

---------------------------------------------------------------------------
(* Properties of run_monitoring and the entry point, under Spec. *)

DetectionErrors == {"IndexError", "UnboundLocalError"}

PublishFailed == error = "ClientError"

\* C1: when the three detections succeeded and the backend failed a publish
\* call, run_monitoring still returns the complete report of the three
\* results it computed.
C1_PublishFailureKeepsReport ==
    (pc = "exit" /\ PublishFailed) =>
        /\ Keys(result) = <<"data_drift", "concept_drift", "prediction_drift">>
        /\ result = Report(data_drift, concept_drift, pred_drift)

\* C2: a failed detection ends the run in failure with that error, with no
\* metric sent to the backend and no report returned or printed; and the
\* backend is called only after all three detections returned a result.
C2_DetectionAllOrNothing ==
    /\ error \in DetectionErrors =>
          /\ pc \in {"raised", "exit"}
          /\ attempts = 0 /\ emitted = <<>>
          /\ result = <<>> /\ stdout = <<>>
          /\ pc = "exit" => exit_code = 1
    /\ attempts > 0 =>
          /\ data_drift # <<>> /\ concept_drift # <<>> /\ pred_drift # <<>>
          /\ error \notin DetectionErrors

C2_Witness ==
    /\ pc = "exit"
    /\ error = "IndexError"
    /\ exit_code = 1

\* C3: the process exits with status 0 exactly when run_monitoring returned
\* its report, and then it has printed the report as JSON.
C3_ExitZeroIffCompleted ==
    pc = "exit" =>
        /\ (exit_code = 0) <=> (result # <<>>)
        /\ result # <<>> => stdout # <<>>

\* The fields of a result that are scalar numbers: not the flags, not the list.
ScalarFields(prefix, d) ==
    {prefix \o d[i].k : i \in {j \in 1..Len(d) : d[j].v.type \in {"int", "float", "float64"}}}

ExpectedNames ==
    {model_id \o "/" \o n :
        n \in ScalarFields("data_drift_", data_drift)
              \cup ScalarFields("concept_drift_", concept_drift)
              \cup ScalarFields("prediction_drift_", pred_drift)}

\* C8: a completed publish has emitted exactly one metric per scalar numeric
\* field of the three results, named {model_id}/{metric_key}, in Percent,
\* no two with the same name, and none for a flag or a list.
C8_OneMetricPerNumericField ==
    (result # <<>>) =>
        /\ {emitted[i].MetricName : i \in 1..Len(emitted)} = ExpectedNames
        /\ Len(emitted) = Cardinality(ExpectedNames)
        /\ \A i \in 1..Len(emitted) : emitted[i].Unit = "Percent"

\* The metrics of the first n items of all_metrics, in iteration order.
MetricsOf(n) ==
    [i \in 1..n |-> Metric(model_id, all_metrics[i].k, all_metrics[i].v)]

\* C10: publish_metrics delivers the metrics one call at a time in the
\* mapping's order; when the k-th call fails the first k-1 metrics stay
\* delivered, no later call is made, the failed one is not repeated, and the
\* error leaves run_monitoring, which returns nothing.
C10_PublishIsNotAtomic ==
    /\ emitted = MetricsOf(Len(emitted))
    /\ Len(emitted) <= Len(all_metrics)
    /\ ~PublishFailed => attempts = Len(emitted)
    /\ PublishFailed =>
          /\ attempts = Len(emitted) + 1
          /\ idx = attempts
          /\ Len(emitted) < Len(all_metrics)
          /\ pc \in {"raised", "exit"}
          /\ result = <<>>
          /\ pc = "exit" => exit_code = 1

C10_Witness ==
    /\ pc = "exit"
    /\ PublishFailed
    /\ Len(emitted) = 3
    /\ attempts = 4

---------------------------------------------------------------------------
(* Properties of the detection operations, under SpecDetector. *)

CalledDataDrift == op = "detect_data_drift"

\* The p-value and the statistic of feature i of the call's datasets.
PValueOf(i) ==
    KsPValue(Column(args.baseline_data, i), Column(args.current_data, i))

StatisticOf(i) ==
    KsStatistic(Column(args.baseline_data, i), Column(args.current_data, i))

\* C4: the score is 100 times the largest KS statistic over all features,
\* whether or not a feature's p-value is below the threshold.
C4_ScoreIsMaxOverAllFeatures ==
    (CalledDataDrift /\ ret.error = NoError) =>
        \E i \in 1..Len(args.features) :
            /\ \A j \in 1..Len(args.features) : ~FLt(StatisticOf(i), StatisticOf(j))
            /\ Get(ret.value, "score").val = FScale(StatisticOf(i), 100)

\* C5: detect_data_drift fails with SchemaMismatchError exactly when the two
\* datasets differ in width.
C5_SchemaMismatchIffWidthsDiffer ==
    CalledDataDrift =>
        ((ret.error = "SchemaMismatchError")
            <=> (Width(args.current_data) # Width(args.baseline_data)))

\* C6: with baseline predictions of mean 0, detect_prediction_drift fails
\* with DegenerateBaselineError and returns no result.
C6_ZeroBaselineMeanIsAnError ==
    (op = "detect_prediction_drift" /\ Mean(args.baseline_predictions) = Zero) =>
        ret.error = "DegenerateBaselineError"

\* C7: a dataset compared with itself, under a threshold strictly between 0
\* and 1, is not drifted: detected is false, the score 0 and no feature is
\* affected.
C7_IdenticalDatasetsDoNotDrift ==
    (/\ CalledDataDrift
     /\ args.current_data = args.baseline_data
     /\ Len(args.features) \in 1..Width(args.current_data)
     /\ FLt(Zero, threshold) /\ FLt(threshold, One)) =>
        /\ ret.error = NoError
        /\ Get(ret.value, "detected") = PyBool(FALSE)
        /\ Get(ret.value, "score") = PyFloat(Zero)
        /\ Get(ret.value, "affected_features") = PyList(<<>>)

C7_Witness ==
    /\ CalledDataDrift
    /\ args.current_data = args.baseline_data
    /\ Len(args.current_data) = 2
    /\ args.current_data[1] # args.current_data[2]
    /\ Len(args.features) = 2
    /\ threshold = Frac(1, 2)
    /\ ret.error = NoError

\* The indices of the features whose p-value is strictly below the threshold.
BelowThreshold == {i \in 1..Len(args.features) : FLt(PValueOf(i), threshold)}

\* The k-th smallest element of a set of integers.
Nth(S, k) == CHOOSE i \in S : Cardinality({j \in S : j < i}) = k - 1

\* C9: affected_features lists, in the order of the feature list, exactly
\* the features whose p-value is strictly below the threshold, and detected
\* is true exactly when that list is not empty.
C9_AffectedIffPValueBelowThreshold ==
    (CalledDataDrift /\ ret.error = NoError) =>
        LET affected == Get(ret.value, "affected_features").val
        IN  /\ Len(affected) = Cardinality(BelowThreshold)
            /\ \A k \in 1..Len(affected) :
                  affected[k] = args.features[Nth(BelowThreshold, k)]
            /\ Get(ret.value, "detected") = PyBool(affected # <<>>)

\* A call in which one feature's p-value equals the threshold and another's
\* is below it.
C9_Witness ==
    /\ CalledDataDrift
    /\ ret.error = NoError
    /\ Len(args.features) = 2
    /\ PValueOf(1) = threshold
    /\ FLt(PValueOf(2), threshold)
    /\ Get(ret.value, "affected_features").val = <<"feature_2">>

============================================================================
